---- MODULE Spec2Model ----
(***************************************************************************)
(* Model of monitor.py (VK comment monitor): the driver loop of main, one  *)
(* cycle of process_comments with its per-post and per-comment steps, and  *)
(* the retry loop of send_telegram_message.  The remote wall (VK) and the  *)
(* messaging channel (Telegram) are the environment: every answer they can *)
(* give is a nondeterministic choice.                                      *)
(***************************************************************************)
EXTENDS Integers, Sequences, FiniteSets

(* ---------------------------- bounds ----------------------------------- *)
\* comment identifiers the wall can hold
MaxId == 2
\* cycle_count is only logged; it saturates here so that the loop never ends
MaxCycles == 2

(* ----------------------- program constants ----------------------------- *)
POSTS_TO_CHECK == 2
COMMENTS_PER_POST == 2
CACHE_LIMIT == 1
retry_count == 3

Ids == 1..MaxId

VARIABLES
  \* program state
  pc,                 \* position of the single thread of control
  seen_comments,      \* global set of processed comment ids
  is_first_run,       \* global bootstrap flag
  owner_id,           \* local of main: the resolved owner, 0 for None
  cycle_count,        \* local of main
  posts,              \* local of process_comments: the fetched posts
  post_idx,           \* position of `for post in posts`
  comments,           \* the comments fetched for the current post
  comment_idx,        \* position of `for comment in comments`
  new_comments_count, \* per-cycle counter
  attempt,            \* loop variable of send_telegram_message
  response,           \* local of send_telegram_message: the answer to the
                      \* attempt, "none" when no answer is being handled
  \* environment
  replay,             \* the last cycle's answers, when the source is
                      \* going to give the same answers in this cycle
  \* history of the current (or, while sleeping, the last) cycle
  seenAtStart,        \* seen_comments when the cycle started
  firstAtStart,       \* is_first_run when the cycle started
  clearedAtStart,     \* seen_comments was cleared by the ceiling check and
                      \* no cycle has fetched a comment since
  completedBefore,    \* some cycle that fetched posts ran to completion
  wallPosts,          \* what get_wall_posts returned
  data,               \* what each get_post_comments call returned
  sent,               \* ids send_telegram_message was invoked for, in order
  sendResults,        \* what those calls returned, in order
  cycleEnd,           \* how the cycle ended
  endSize,            \* size of seen_comments when the cycle ended
  bootIds,            \* ids recorded by the bootstrap pass that just ended
  everFailed,         \* ids whose delivery has ever failed
  \* history of the current call of send_telegram_message
  answers,            \* for each attempt made, whether it was answered well
  backoff,            \* the wait made since the last attempt
  \* history of the delivery loop
  paced               \* the pacing wait was made since the last delivery

prog == <<pc, owner_id, seen_comments, is_first_run, cycle_count, posts, post_idx,
          comments, comment_idx, new_comments_count, attempt, response>>
hist == <<seenAtStart, firstAtStart, clearedAtStart,
                 completedBefore, wallPosts, data, sent, sendResults,
          cycleEnd, endSize, bootIds, everFailed>>
waits == <<answers, backoff, paced>>
vars == <<prog, replay, hist, waits>>

(* ------------------------- the source adapter -------------------------- *)
Range(s) == {s[i] : i \in 1..Len(s)}

SeqsUpTo(S, n) == UNION {[1..k -> S] : k \in 0..n}

\* wall.get: up to POSTS_TO_CHECK posts, newest first (post ids are ranks)
PostLists == {[i \in 1..n |-> n + 1 - i] : n \in 1..POSTS_TO_CHECK}

\* wall.getComments: up to COMMENTS_PER_POST comments, newest first
CommentLists == SeqsUpTo(Ids, COMMENTS_PER_POST)

\* vk_api_call answers None on a network or API error
ApiError == [error |-> TRUE, items |-> <<>>]
ApiOk(items) == [error |-> FALSE, items |-> items]

\* get_post_comments: [] when vk_api_call answered None, else the items
get_post_comments == {ApiError} \cup {ApiOk(s) : s \in CommentLists}

NoReplay == [on |-> FALSE, posts |-> <<>>, results |-> <<>>,
             first |-> FALSE, cleared |-> FALSE]

\* comment ids fetched so far in this cycle
Fetched == UNION {Range(data[i].items) : i \in 1..Len(data)}

(* ------------------------------ Init ----------------------------------- *)
Init ==
  /\ pc = "startup"
  /\ owner_id = 0
  /\ seen_comments = {}
  /\ is_first_run = TRUE
  /\ cycle_count = 0
  /\ posts = <<>>
  /\ post_idx = 0
  /\ comments = <<>>
  /\ comment_idx = 0
  /\ new_comments_count = 0
  /\ attempt = 0
  /\ response = "none"
  /\ answers = <<>>
  /\ backoff = "none"
  /\ paced = FALSE
  /\ replay = NoReplay
  /\ seenAtStart = {}
  /\ firstAtStart = TRUE
  /\ clearedAtStart = FALSE
  /\ completedBefore = FALSE
  /\ wallPosts = <<>>
  /\ data = <<>>
  /\ sent = <<>>
  /\ sendResults = <<>>
  /\ cycleEnd = "none"
  /\ endSize = 0
  /\ bootIds = {}
  /\ everFailed = {}

(* --------------------------- code fragments ---------------------------- *)
IsSeenNever(c) == FALSE

\* `if comment_id in seen_comments: continue`
IsSeen(c) == c \in seen_comments

RecordNothing(c) == seen_comments

\* `seen_comments.add(comment_id)`
Record(c) == seen_comments \cup {c}

SuppressNever == FALSE

\* `if is_first_run: continue`
Suppress == is_first_run

CacheCheckOffByOne(s) == IF Cardinality(s) > CACHE_LIMIT + 1 THEN {} ELSE s

\* `if len(seen_comments) > CACHE_LIMIT: seen_comments.clear()`
CacheCheck(s) == IF Cardinality(s) > CACHE_LIMIT THEN {} ELSE s

OnSendFailedForget(c) == seen_comments \ {c}

\* send_telegram_message returned False: only a log line, the id stays
OnSendFailed(c) == seen_comments

OnExceptionRollBack(s) == seenAtStart

\* the handler in main only logs: what the cycle did to seen_comments stays
OnException(s) == s

AfterExceptionCrash == "crashed"

\* `except Exception as e: log(...)` falls through to the sleep of the loop
AfterException == "sleep"

AfterApiErrorRaise == "raise"

\* vk_api_call catches every exception of the request and answers None;
\* get_post_comments then answers [] and the caller does `continue`
AfterApiError == "continue"

\* the frame of process_comments (and below) is gone
LeaveFrame ==
  /\ posts' = <<>>
  /\ post_idx' = 0
  /\ comments' = <<>>
  /\ comment_idx' = 0
  /\ new_comments_count' = 0
  /\ attempt' = 0
  /\ response' = "none"
  /\ answers' = <<>>
  /\ backoff' = "none"
  /\ paced' = FALSE

\* an exception leaves process_comments and reaches the handler in main
Abandon(seen) ==
  /\ pc' = AfterException
  /\ cycleEnd' = "exception"
  /\ endSize' = Cardinality(seen)
  /\ LeaveFrame

\* next iteration of `for post in posts`, or the end of that loop
NextPost ==
  /\ comments' = <<>>
  /\ comment_idx' = 0
  /\ IF post_idx < Len(posts)
       THEN pc' = "post" /\ post_idx' = post_idx + 1
       ELSE pc' = "end" /\ post_idx' = post_idx

NextCommentStay ==
  /\ pc' = "comment"
  /\ UNCHANGED <<post_idx, comments, comment_idx>>

\* next iteration of `for comment in comments`, or of the outer loop
NextComment ==
  IF comment_idx < Len(comments)
    THEN /\ pc' = "comment"
         /\ comment_idx' = comment_idx + 1
         /\ UNCHANGED <<post_idx, comments>>
    ELSE NextPost

comment_idOldestFirst == comments[Len(comments) + 1 - comment_idx]

\* the comment the inner loop is at
comment_id == comments[comment_idx]

(* ------------------------------- main ---------------------------------- *)
StartupFailedNoReturn ==
  /\ pc = "startup"
  /\ pc' = "loop"
  /\ UNCHANGED <<owner_id, seen_comments, is_first_run, cycle_count, posts,
                 post_idx, comments, comment_idx, new_comments_count,
                 attempt, response, waits, replay, hist>>

\* validate_config fails, or resolve_vk_owner answers (None, None, None)
\* and `if not owner_id` holds: main returns
StartupFailed ==
  /\ pc = "startup"
  /\ pc' = "exit"
  /\ UNCHANGED <<owner_id, seen_comments, is_first_run, cycle_count, posts, post_idx,
                 comments, comment_idx, new_comments_count, attempt, response, waits,
                 replay, hist>>

\* the configuration is complete and resolve_vk_owner answers an owner
EnterLoop ==
  /\ pc = "startup"
  /\ pc' = "loop"
  /\ owner_id' = 1
  /\ UNCHANGED <<seen_comments, is_first_run, cycle_count, posts, post_idx,
                 comments, comment_idx, new_comments_count, attempt, response, waits,
                 replay, hist>>

\* top of `while True`: cycle_count += 1, then process_comments is called
BeginCycle ==
  /\ pc = "loop"
  /\ pc' = "get_posts"
  /\ cycle_count' = IF cycle_count < MaxCycles THEN cycle_count + 1
                                               ELSE cycle_count
  /\ replay' \in {NoReplay} \cup
       (IF cycleEnd = "completed"
          THEN {[on |-> TRUE, posts |-> wallPosts, results |-> data,
                 first |-> firstAtStart,
                 cleared |-> endSize > 0 /\ seen_comments = {}]}
          ELSE {})
  /\ seenAtStart' = seen_comments
  /\ firstAtStart' = is_first_run
  /\ clearedAtStart' =
       IF cycleEnd = "completed" /\ endSize > 0 /\ seen_comments = {}
         THEN TRUE
         ELSE IF Fetched # {} THEN FALSE ELSE clearedAtStart
  /\ wallPosts' = <<>>
  /\ data' = <<>>
  /\ sent' = <<>>
  /\ sendResults' = <<>>
  /\ cycleEnd' = "running"
  /\ endSize' = 0
  /\ bootIds' = IF firstAtStart /\ cycleEnd = "completed" THEN Fetched ELSE {}
  /\ UNCHANGED <<owner_id, seen_comments, is_first_run, posts, post_idx, comments,
                 comment_idx, new_comments_count, attempt, response, waits,
                 completedBefore, everFailed>>

\* time.sleep(CHECK_INTERVAL) returns
Sleep ==
  /\ pc = "sleep"
  /\ pc' = "loop"
  /\ UNCHANGED <<owner_id, seen_comments, is_first_run, cycle_count, posts, post_idx,
                 comments, comment_idx, new_comments_count, attempt, response, waits,
                 replay, hist>>

\* the positions inside the outer try of main
LoopPcs ==
  {"loop", "get_posts", "post", "comment", "send", "answered", "end", "sleep"}

AfterInterruptSwallowed == AfterException

\* KeyboardInterrupt is not an Exception: no handler below the outer
\* `except KeyboardInterrupt` of main takes it; main logs and returns
AfterInterrupt == "stopped"

\* KeyboardInterrupt anywhere inside the outer try of main
Interrupt ==
  /\ pc \in LoopPcs
  /\ pc' = AfterInterrupt
  /\ LeaveFrame
  /\ UNCHANGED <<owner_id, seen_comments, is_first_run, cycle_count, replay, hist>>

(* -------------------------- process_comments --------------------------- *)
GetWallPostsEmptyFallThrough ==
  /\ pc = "get_posts"
  /\ ~replay.on
  /\ pc' = "end"
  /\ UNCHANGED <<owner_id, seen_comments, is_first_run, cycle_count, posts, post_idx,
                 comments, comment_idx, new_comments_count, attempt, response, waits,
                 replay, hist>>

\* get_wall_posts answers [] (request failed, or no posts): early return
GetWallPostsEmpty ==
  /\ pc = "get_posts"
  /\ ~replay.on
  /\ pc' = "sleep"
  /\ cycleEnd' = "noposts"
  /\ endSize' = Cardinality(seen_comments)
  /\ LeaveFrame
  /\ UNCHANGED <<owner_id, seen_comments, is_first_run, cycle_count, replay,
                 seenAtStart, firstAtStart, clearedAtStart,
                 completedBefore, wallPosts, data, sent,
                 sendResults, bootIds, everFailed>>

\* get_wall_posts answers a non-empty list; new_comments_count = 0
GetWallPosts ==
  /\ pc = "get_posts"
  /\ \E p \in PostLists :
       /\ replay.on => p = replay.posts
       /\ posts' = p
       /\ wallPosts' = p
  /\ new_comments_count' = 0
  /\ post_idx' = 1
  /\ pc' = "post"
  /\ UNCHANGED <<owner_id, seen_comments, is_first_run, cycle_count, comments,
                 comment_idx, attempt, response, waits, replay, seenAtStart, firstAtStart, clearedAtStart,
                 completedBefore,
                 data, sent, sendResults, cycleEnd, endSize, bootIds,
                 everFailed>>

\* get_post_comments answers [] (error or no comments): `continue`
FetchCommentsEmpty ==
  /\ pc = "post"
  /\ \E r \in get_post_comments :
       /\ r.items = <<>>
       /\ replay.on => r = replay.results[post_idx]
       /\ data' = Append(data, r)
       /\ IF r.error /\ AfterApiError # "continue"
            THEN Abandon(seen_comments)
            ELSE NextPost /\ UNCHANGED <<posts, new_comments_count, attempt, response, waits,
                                         cycleEnd, endSize>>
  /\ UNCHANGED <<owner_id, seen_comments, is_first_run, cycle_count, replay,
                 seenAtStart, firstAtStart, clearedAtStart,
                 completedBefore, wallPosts, sent, sendResults,
                 bootIds, everFailed>>

\* get_post_comments answers a non-empty list: the inner loop starts
FetchComments ==
  /\ pc = "post"
  /\ \E r \in get_post_comments :
       /\ r.items # <<>>
       /\ replay.on => r = replay.results[post_idx]
       /\ data' = Append(data, r)
       /\ comments' = r.items
  /\ comment_idx' = 1
  /\ pc' = "comment"
  /\ UNCHANGED <<owner_id, seen_comments, is_first_run, cycle_count, posts, post_idx,
                 new_comments_count, attempt, response, waits, replay, seenAtStart,
                 firstAtStart, clearedAtStart,
                 completedBefore, wallPosts, sent, sendResults, cycleEnd,
                 endSize, bootIds, everFailed>>

\* get_post_comments raises while attaching author_info (a comment without
\* from_id, a profile without id): nothing was returned for this post
FetchCommentsRaise ==
  /\ pc = "post"
  /\ ~replay.on
  /\ seen_comments' = OnException(seen_comments)
  /\ Abandon(seen_comments)
  /\ UNCHANGED <<owner_id, is_first_run, cycle_count, replay,
                 seenAtStart, firstAtStart, clearedAtStart,
                 completedBefore, wallPosts, data, sent,
                 sendResults, bootIds, everFailed>>

\* the comment is already in seen_comments: `continue`
SkipDuplicate ==
  /\ pc = "comment"
  /\ IsSeen(comment_id)
  /\ NextComment
  /\ UNCHANGED <<owner_id, seen_comments, is_first_run, cycle_count, posts,
                 new_comments_count, attempt, response, waits, replay, hist>>

\* a new comment during the first run: recorded, `continue`
RecordOnly ==
  /\ pc = "comment"
  /\ ~IsSeen(comment_id)
  /\ Suppress
  /\ seen_comments' = Record(comment_id)
  /\ NextComment
  /\ UNCHANGED <<owner_id, is_first_run, cycle_count, posts, new_comments_count,
                 attempt, response, waits, replay, hist>>

\* a new comment after the first run: recorded, formatted, and
\* send_telegram_message is entered
Notify ==
  /\ pc = "comment"
  /\ ~IsSeen(comment_id)
  /\ ~Suppress
  /\ seen_comments' = Record(comment_id)
  /\ sent' = Append(sent, comment_id)
  /\ attempt' = 0
  /\ answers' = <<>>
  /\ backoff' = "none"
  /\ paced' = FALSE
  /\ pc' = "send"
  /\ UNCHANGED <<owner_id, is_first_run, cycle_count, posts, post_idx, comments,
                 comment_idx, new_comments_count, response, replay,
                 seenAtStart, firstAtStart, clearedAtStart,
                 completedBefore, wallPosts, data, sendResults,
                 cycleEnd, endSize, bootIds, everFailed>>

\* a new comment after the first run: recorded, then
\* format_telegram_message raises (e.g. text or date of the wrong type)
FormatRaise ==
  /\ pc = "comment"
  /\ ~IsSeen(comment_id)
  /\ ~Suppress
  /\ seen_comments' = OnException(Record(comment_id))
  /\ Abandon(Record(comment_id))
  /\ UNCHANGED <<owner_id, is_first_run, cycle_count, replay, seenAtStart,
                 firstAtStart, clearedAtStart,
                 completedBefore, wallPosts, data, sent, sendResults, bootIds,
                 everFailed>>

\* end of the outer loop: the flag is dropped, the cache size is checked
EndCycle ==
  /\ pc = "end"
  /\ is_first_run' = FALSE
  /\ seen_comments' = CacheCheck(seen_comments)
  /\ cycleEnd' = "completed"
  /\ endSize' = Cardinality(seen_comments)
  /\ pc' = "sleep"
  /\ LeaveFrame
  /\ completedBefore' = (completedBefore \/ wallPosts # <<>>)
  /\ UNCHANGED <<owner_id, cycle_count, replay, seenAtStart, firstAtStart,
                 clearedAtStart, wallPosts, data, sent, sendResults, bootIds,
                 everFailed>>

(* ----------------------- send_telegram_message ------------------------- *)
\* what an attempt can be answered with and the code handles: a status that
\* is neither 429 nor an error, a 429 whose body carries retry_after, a 429
\* whose body carries none, a RequestException (of requests.post or of
\* raise_for_status)
Responses == {"ok", "429_retry_after", "429", "error"}

MoreAttemptsOneExtra == attempt < retry_count

\* `for attempt in range(retry_count)` has another iteration
MoreAttempts == attempt + 1 < retry_count

BackoffNoneAfterError(r) ==
  CASE r = "429_retry_after" -> "retry_after"
    [] r = "429"             -> "fixed_5"
    [] OTHER                 -> "none"

\* the wait before the next attempt: time.sleep(retry_after), where
\* retry_after defaults to 5, or time.sleep(2) after a RequestException
Backoff(r) ==
  CASE r = "429_retry_after" -> "retry_after"
    [] r = "429"             -> "fixed_5"
    [] OTHER                 -> "fixed_2"

CountedAlways(ok) == new_comments_count + 1

\* `if send_telegram_message(message): new_comments_count += 1`
Counted(ok) == IF ok THEN new_comments_count + 1 ELSE new_comments_count

\* send_telegram_message has returned: the caller sleeps 1.2 s and goes on
\* with the next comment
Returned ==
  /\ attempt' = 0
  /\ response' = "none"
  /\ answers' = <<>>
  /\ backoff' = "none"
  /\ paced' = TRUE
  /\ NextComment

\* requests.post of one attempt, and what it is answered with
Transmit ==
  /\ pc = "send"
  /\ \E r \in Responses :
       /\ response' = r
       /\ answers' = Append(answers, r = "ok")
  /\ backoff' = "none"
  /\ pc' = "answered"
  /\ UNCHANGED <<owner_id, seen_comments, is_first_run, cycle_count, posts,
                 post_idx, comments, comment_idx, new_comments_count,
                 attempt, replay, hist, paced>>

\* the attempt is answered with neither 429 nor an error: return True;
\* the caller counts it
SendOk ==
  /\ pc = "answered"
  /\ response = "ok"
  /\ sendResults' = Append(sendResults, TRUE)
  /\ new_comments_count' = Counted(TRUE)
  /\ Returned
  /\ UNCHANGED <<owner_id, seen_comments, is_first_run, cycle_count, posts, replay,
                 seenAtStart, firstAtStart, clearedAtStart,
                 completedBefore, wallPosts, data, sent, cycleEnd,
                 endSize, bootIds, everFailed>>

\* an attempt before the last is answered 429 or fails: wait, next attempt
SendRetry ==
  /\ pc = "answered"
  /\ response # "ok"
  /\ MoreAttempts
  /\ backoff' = Backoff(response)
  /\ attempt' = attempt + 1
  /\ response' = "none"
  /\ pc' = "send"
  /\ UNCHANGED <<owner_id, seen_comments, is_first_run, cycle_count, posts,
                 post_idx, comments, comment_idx, new_comments_count,
                 replay, hist, answers, paced>>

\* the last attempt is answered 429 or fails: (wait after a 429,) return
\* False; the caller logs it
SendFail ==
  /\ pc = "answered"
  /\ response # "ok"
  /\ ~MoreAttempts
  /\ sendResults' = Append(sendResults, FALSE)
  /\ new_comments_count' = Counted(FALSE)
  /\ everFailed' = everFailed \cup {comment_id}
  /\ seen_comments' = OnSendFailed(comment_id)
  /\ Returned
  /\ UNCHANGED <<owner_id, is_first_run, cycle_count, posts, replay,
                 seenAtStart, firstAtStart, clearedAtStart,
                 completedBefore, wallPosts, data, sent, cycleEnd,
                 endSize, bootIds>>

\* an attempt is answered 429 and handling the answer raises something that
\* is not a RequestException (the body is JSON but not an object, or
\* retry_after is not a number): the call does not return and the
\* exception reaches the handler in main
SendRaise ==
  /\ pc = "send"
  /\ seen_comments' = OnException(seen_comments)
  /\ Abandon(seen_comments)
  /\ UNCHANGED <<owner_id, is_first_run, cycle_count, replay,
                 seenAtStart, firstAtStart, clearedAtStart,
                 completedBefore, wallPosts, data, sent,
                 sendResults, bootIds, everFailed>>

(* ------------------------------ Spec ----------------------------------- *)
Step ==
  \/ StartupFailed
  \/ EnterLoop
  \/ BeginCycle
  \/ Sleep
  \/ GetWallPostsEmpty
  \/ GetWallPosts
  \/ FetchCommentsEmpty
  \/ FetchComments
  \/ FetchCommentsRaise
  \/ SkipDuplicate
  \/ RecordOnly
  \/ Notify
  \/ FormatRaise
  \/ EndCycle
  \/ Transmit
  \/ SendOk
  \/ SendRetry
  \/ SendFail
  \/ SendRaise

Next == Step \/ Interrupt

Spec == Init /\ [][Next]_vars

\* the thread always runs on: sleeps return and requests time out
FairSpec == Spec /\ WF_vars(Step)

(* ============================ properties =============================== *)
\* this step enters send_telegram_message for comment c
SendInvoked(c) == sent' = Append(sent, c)

\* this step is the return of send_telegram_message with False
SendFailedStep == sendResults' = Append(sendResults, FALSE)

\* this step is a get_post_comments call that ended in an API error
FetchErrorStep == Len(data') = Len(data) + 1 /\ data'[Len(data')].error

\* the last cycle is over (returned or raised) and no new one has begun
CycleOver == cycleEnd \in {"completed", "noposts", "exception"}

\* C1: a step enters send_telegram_message only for an id that is not in
\* seen_comments before the step and is in it after the step, and for one
\* id at a time; so while an id stays in seen_comments no further call is
\* made for it, whatever the source returns.
C1_AtMostOnceWhileSeen ==
  [][\/ sent' = sent
     \/ sent' = <<>>
     \/ \E c \in Ids \ seen_comments :
          SendInvoked(c) /\ c \in seen_comments']_vars

\* a comment notified earlier in this cycle, or seen before it, comes again
C1_Witness ==
  /\ pc = "comment"
  /\ ~is_first_run
  /\ sent # <<>>
  /\ comment_id \in Range(sent) \cup seenAtStart
  /\ comment_id \in seen_comments

\* C2 as stated: in a cycle that starts with is_first_run and fetches a
\* comment, every fetched id is recorded, nothing is sent, and is_first_run
\* is false when the cycle is over, however it ended; a delivery is only
\* ever attempted with is_first_run false.
C2_Original ==
  /\ firstAtStart => sent = <<>>
  /\ (firstAtStart /\ pc \in {"post", "end"}) => Fetched \subseteq seen_comments
  /\ (firstAtStart /\ Fetched # {} /\ CycleOver) => ~is_first_run
  /\ pc \in {"send", "answered"} => ~is_first_run

\* C2 amended: the flag is false at the end of such a cycle when the cycle
\* ran to completion (an abandoned first cycle leaves it true).
C2_BootstrapPass ==
  /\ firstAtStart => sent = <<>>
  /\ (firstAtStart /\ pc \in {"post", "end"}) => Fetched \subseteq seen_comments
  /\ (firstAtStart /\ Fetched # {} /\ cycleEnd = "completed") => ~is_first_run
  /\ pc \in {"send", "answered"} => ~is_first_run

\* a completed first cycle that fetched two different comments
C2_Witness ==
  /\ pc = "sleep"
  /\ cycleEnd = "completed"
  /\ firstAtStart
  /\ Cardinality(Fetched) >= 2
  /\ ~is_first_run

\* C3: in the cycle that follows the bootstrap pass, no delivery is
\* attempted for a comment that the bootstrap pass fetched and recorded.
C3_NoStormAfterBootstrap ==
  \A i \in 1..Len(sent) : sent[i] \notin bootIds

\* C4 as stated: after a completed run that started with is_first_run
\* false, a run in which the source returns the same posts and comments
\* enters send_telegram_message zero times.
C4_Original ==
  (replay.on /\ ~replay.first) => sent = <<>>

\* C4 amended: ... provided the first of the two runs did not end with the
\* clearing of seen_comments.
C4_Idempotent ==
  (replay.on /\ ~replay.first /\ ~replay.cleared) => sent = <<>>

\* the second of two equal runs is over, and comments were fetched in it
C4_Witness ==
  /\ replay.on
  /\ ~replay.first
  /\ ~replay.cleared
  /\ cycleEnd = "completed"
  /\ Fetched # {}

C6_FailureStep ==
  SendFailedStep =>
    /\ sent' = sent
    /\ sent[Len(sent)] \in seen_comments'
    /\ pc' \in {"comment", "post", "end"}
    /\ new_comments_count' = new_comments_count

\* C6 as stated: ... and send_telegram_message is never entered again for
\* an id whose delivery failed.
C6_Original ==
  [][C6_FailureStep /\ \A c \in everFailed : ~SendInvoked(c)]_vars

\* C6 amended: ... and send_telegram_message is not entered again for an
\* id whose delivery failed for as long as the id stays in seen_comments.
C6_FailureIsFinal ==
  [][C6_FailureStep
     /\ \A c \in everFailed \cap seen_comments : ~SendInvoked(c)]_vars

\* a later cycle meets a comment whose delivery failed and is still recorded
C6_Witness ==
  /\ pc = "comment"
  /\ sent = <<>>
  /\ comment_id \in everFailed
  /\ comment_id \in seen_comments

\* C7: a cycle in which get_wall_posts answered [] is over by the early
\* return (not by an exception), with seen_comments and is_first_run as
\* they were, no get_post_comments call and no send_telegram_message call.
C7_NoPostsIsNoOp ==
  (CycleOver /\ wallPosts = <<>>) =>
    /\ cycleEnd = "noposts"
    /\ seen_comments = seenAtStart
    /\ is_first_run = firstAtStart
    /\ data = <<>>
    /\ sent = <<>>

\* a cycle without posts is over, with ids recorded before it
C7_Witness ==
  /\ pc = "sleep"
  /\ cycleEnd = "noposts"
  /\ seen_comments # {}

\* C8: at the end of the loops, before the flag and the cache check,
\* seen_comments is S \cup F and send_telegram_message was entered
\* |F \ S| times (0 times in a cycle that started with is_first_run).
C8_SeenAndDeliveries ==
  pc = "end" =>
    /\ seen_comments = seenAtStart \cup Fetched
    /\ Len(sent) = IF firstAtStart THEN 0
                                   ELSE Cardinality(Fetched \ seenAtStart)

\* a cycle after the first run fetched known comments and a new one
C8_Witness ==
  /\ pc = "end"
  /\ ~firstAtStart
  /\ Fetched \cap seenAtStart # {}
  /\ Cardinality(Fetched \ seenAtStart) = 1
  /\ Len(sent) = 1

\* C9: a get_post_comments call that ends in an API error changes neither
\* seen_comments nor the deliveries, raises nothing, and the loop goes on
\* with the next post; when the loop is over every post was fetched and
\* everything fetched is recorded.
C9_FetchErrorSkipsPost ==
  /\ [][FetchErrorStep =>
          /\ seen_comments' = seen_comments
          /\ sent' = sent
          /\ cycleEnd' = "running"
          /\ posts' = posts
          /\ IF post_idx < Len(posts)
               THEN pc' = "post" /\ post_idx' = post_idx + 1
               ELSE pc' = "end"]_vars
  /\ [](pc = "end" => Len(data) = Len(posts) /\ Fetched \subseteq seen_comments)

\* the first post failed, the second was fetched and processed
C9_Witness ==
  /\ pc = "end"
  /\ Len(data) = 2
  /\ data[1].error
  /\ data[2].items # <<>>

\* C10: after a cycle that was abandoned by an exception (as after any
\* other) a new cycle is eventually begun, unless an interrupt arrives.
C10_NextCycleStarts ==
  CycleOver ~> (cycleEnd = "running" \/ pc = "stopped")

\* the driver is back at the top of the loop after an abandoned cycle
C10_Witness ==
  /\ pc = "loop"
  /\ cycleEnd = "exception"

\* this step is an exception reaching the handler in main
ExceptionStep == cycleEnd = "running" /\ cycleEnd' = "exception"

\* C11: the step in which an exception abandons the cycle removes nothing
\* from seen_comments (the id added just before the exception included) and
\* leaves is_first_run as it was when the cycle started; until the next
\* cycle starts, everything recorded before or during the abandoned cycle
\* is still recorded.
C11_NoRollback ==
  /\ [][ExceptionStep =>
          /\ seen_comments \subseteq seen_comments'
          /\ (pc = "comment" => comment_id \in seen_comments')
          /\ is_first_run' = firstAtStart]_vars
  /\ []((cycleEnd = "exception" /\ pc \in {"sleep", "loop"}) =>
          /\ seenAtStart \cup Range(sent) \subseteq seen_comments
          /\ Cardinality(seen_comments) = endSize
          /\ is_first_run = firstAtStart)

\* the next cycle is about to start after an abandoned cycle that had
\* recorded something
C11_Witness ==
  /\ pc = "loop"
  /\ cycleEnd = "exception"
  /\ seen_comments # seenAtStart

\* C12: a step that takes the program out of the cycle loop is the
\* KeyboardInterrupt step; no answer of the source, no delivery outcome and
\* no exception of a cycle leaves the loop.
C12_OnlyInterruptLeavesLoop ==
  [][(pc \in LoopPcs /\ pc' \notin LoopPcs) => Interrupt]_vars

\* the loop went through an abandoned cycle and was then left by interrupt
C12_Witness ==
  /\ pc = "stopped"
  /\ cycleEnd = "exception"

\* C13: as long as the owner is not resolved (also when the configuration
\* is incomplete) the program is before the loop or has returned from main,
\* no cycle was begun, nothing was fetched and no delivery was attempted.
C13_NoLoopWithoutOwner ==
  owner_id = 0 =>
    /\ pc \in {"startup", "exit"}
    /\ cycle_count = 0
    /\ cycleEnd = "none"
    /\ wallPosts = <<>>
    /\ data = <<>>
    /\ sent = <<>>
    /\ seen_comments = {}

\* main has returned at start-up
C13_Witness ==
  /\ pc = "exit"
  /\ owner_id = 0

\* this step is the return of send_telegram_message with the value ok
SendReturned(ok) == sendResults' = Append(sendResults, ok)

\* all attempts made so far in this call but the last were answered badly
EarlierAllBad == \A i \in 1..(Len(answers) - 1) : ~answers[i]

C20_PacingAndBackoff ==
  /\ [][(\E c \in Ids : SendInvoked(c)) /\ sent # <<>> => paced]_vars
  /\ [][\A ok \in BOOLEAN : SendReturned(ok) => paced']_vars
  /\ [][(pc = "send" /\ pc' = "answered" /\ attempt > 0)
          => backoff # "none"]_vars
  /\ [][(pc = "answered" /\ pc' = "send") =>
          /\ response = "429_retry_after" => backoff' = "retry_after"
          /\ response # "429_retry_after" => backoff' \in {"fixed_5", "fixed_2"}]_vars

\* the second delivery of a cycle is at a later attempt, after the wait
\* the answer asked for
C20_Witness ==
  /\ pc = "send"
  /\ Len(sent) = 2
  /\ attempt > 0
  /\ backoff = "retry_after"
  /\ sendResults = <<FALSE>>

\* the comments fetched so far in this cycle, in the order the source
\* returned them: post after post, inside a post as listed
RECURSIVE Flat(_)
Flat(d) == IF d = <<>> THEN <<>> ELSE d[1].items \o Flat(Tail(d))

\* where comment c first stands in the fetch order
FetchPos(c) ==
  CHOOSE k \in 1..Len(Flat(data)) :
    /\ Flat(data)[k] = c
    /\ \A m \in 1..(k - 1) : Flat(data)[m] # c

\* C15: within one cycle send_telegram_message is entered in fetch order:
\* of two comments it is entered for, the one the source returned earlier
\* (earlier post, or earlier in the list of the same post) comes first.
C15_DeliveryInFetchOrder ==
  /\ Range(sent) \subseteq Fetched
  /\ \A i, j \in 1..Len(sent) :
       i < j => FetchPos(sent[i]) < FetchPos(sent[j])

\* two posts: the comment of the first was attempted before the new
\* comment of the second, which stands behind an already attempted one
C15_Witness ==
  /\ pc = "end"
  /\ Len(data) = 2
  /\ data[1].items = <<2>>
  /\ data[2].items = <<2, 1>>
  /\ sent = <<2, 1>>

\* this step is the end of a cycle that ran to completion
CompletionStep == cycleEnd = "running" /\ cycleEnd' = "completed" /\ pc = "end"

\* C16: seen_comments is emptied only by the last step of a cycle that ran
\* to completion, and that step empties it exactly when its size is
\* greater than CACHE_LIMIT (a size equal to CACHE_LIMIT is kept); no step
\* in the middle of a cycle takes anything out of it, whatever its size.
C16_ClearedOnlyAtEnd ==
  /\ [][(seen_comments # {} /\ seen_comments' = {}) =>
          CompletionStep /\ Cardinality(seen_comments) > CACHE_LIMIT]_vars
  /\ [][CompletionStep =>
          IF Cardinality(seen_comments) > CACHE_LIMIT
            THEN seen_comments' = {}
            ELSE seen_comments' = seen_comments]_vars
  /\ [][~CompletionStep => seen_comments \subseteq seen_comments']_vars

\* the set passed CACHE_LIMIT while the first of two posts was processed
\* and was emptied only when the cycle ended
C16_Witness ==
  /\ pc = "sleep"
  /\ cycleEnd = "completed"
  /\ Len(data) = 2
  /\ Cardinality(Range(data[1].items) \cup seenAtStart) > CACHE_LIMIT
  /\ endSize > CACHE_LIMIT
  /\ seen_comments = {}

\* C17: every step leaves seen_comments as it is, adds one id that was not
\* in it, or empties it; a comment whose id is already in the set is
\* skipped: the set, the counter and the delivery log stay as they are and
\* the loop goes on to the next comment.
C17_SeenSetSteps ==
  /\ [][\/ seen_comments' = seen_comments
        \/ \E c \in Ids \ seen_comments :
             seen_comments' = seen_comments \cup {c}
        \/ seen_comments' = {}]_vars
  /\ [][(pc = "comment" /\ comment_id \in seen_comments /\ pc' # "stopped") =>
          /\ seen_comments' = seen_comments
          /\ new_comments_count' = new_comments_count
          /\ sent' = sent
          /\ sendResults' = sendResults
          /\ \/ pc' = "comment" /\ comment_idx' = comment_idx + 1
             \/ pc' \in {"post", "end"} /\ comment_idx = Len(comments)]_vars

\* a comment listed twice: delivered and counted once, skipped the second
\* time
C17_Witness ==
  /\ pc = "end"
  /\ Len(data) = 1
  /\ data[1].items = <<1, 1>>
  /\ sent = <<1>>
  /\ new_comments_count = 1

\* C18: once the ceiling check has cleared seen_comments, is_first_run is
\* false, and the next cycle that fetches comments enters
\* send_telegram_message for every distinct comment it fetches.
C18_AllNotifiedAfterClear ==
  clearedAtStart =>
    /\ ~is_first_run
    /\ (CycleOver /\ Fetched # {}) => Range(sent) = Fetched

\* the positions inside process_comments past the fetch of the posts
InCycle == pc \in {"post", "comment", "send", "answered", "end"}

\* how many calls of send_telegram_message of this cycle returned True
Successes == Cardinality({i \in 1..Len(sendResults) : sendResults[i]})

\* C19: new_comments_count is 0 when a cycle that fetched posts starts on
\* them, at every point of the cycle it is the number of calls of
\* send_telegram_message of this cycle that returned True, and no other
\* step of the cycle (failed delivery, duplicate, bootstrap pass) changes it.
C19_CounterCountsSuccesses ==
  /\ [](InCycle => new_comments_count = Successes)
  /\ [][(pc = "get_posts" /\ pc' = "post") => new_comments_count' = 0]_vars
  /\ [][(InCycle /\ InCycle' /\ new_comments_count' # new_comments_count) =>
          /\ SendReturned(TRUE)
          /\ new_comments_count' = new_comments_count + 1]_vars

\* a cycle with one failed and one successful delivery
C19_Witness ==
  /\ pc = "end"
  /\ sendResults = <<FALSE, TRUE>>
  /\ new_comments_count = 1

\* C21: an interrupt can arrive at every position inside the loop (sleep,
\* middle of a cycle, middle of a delivery); it is not taken for an
\* exception of the cycle: the program stops, and once stopped it starts
\* no cycle, enters no delivery and makes no attempt.
C21_InterruptStops ==
  /\ [](pc \in LoopPcs => ENABLED Interrupt)
  /\ [][Interrupt => pc' = "stopped" /\ cycleEnd' = cycleEnd]_vars
  /\ [][pc = "stopped" =>
          /\ pc' = "stopped"
          /\ cycle_count' = cycle_count
          /\ cycleEnd' = cycleEnd
          /\ sent' = sent
          /\ answers' = answers]_vars

\* stopped in the middle of a delivery: send_telegram_message was entered
\* and has not returned
C21_Witness ==
  /\ pc = "stopped"
  /\ cycleEnd = "running"
  /\ Len(sent) = Len(sendResults) + 1

\* C22: every cycle ends. While it runs it makes at most one comment fetch
\* per fetched post, enters send_telegram_message at most once per fetched
\* comment and makes at most retry_count attempts per call; a cycle that
\* has begun comes to the sleep between cycles (or the program is
\* interrupted).
C22_CycleTerminates ==
  /\ [](Len(data) <= Len(wallPosts))
  /\ [](InCycle => Len(data) <= post_idx /\ post_idx <= Len(posts))
  /\ [](Len(sent) <= Len(Flat(data)) /\ Cardinality(Range(sent)) = Len(sent))
  /\ [](Len(answers) <= retry_count)
  /\ [](pc \in {"send", "answered"} => attempt < retry_count)
  /\ (cycleEnd = "running" /\ pc # "stopped") ~> (pc \in {"sleep", "stopped"})

\* a cycle that fetched every post, made two deliveries, one of which used
\* up its attempts, has come to the sleep
C22_Witness ==
  /\ pc = "sleep"
  /\ cycleEnd = "completed"
  /\ Len(data) = POSTS_TO_CHECK
  /\ Len(sent) = 2
  /\ FALSE \in Range(sendResults)

\* this step ends a cycle without completing it: early return or exception
\* (or interrupt)
UncompletedEndStep ==
  /\ cycleEnd = "running"
  /\ cycleEnd' \in {"noposts", "exception"} \/ pc' = "stopped"

\* C23: is_first_run is true exactly as long as no cycle that fetched posts
\* has run to completion; it changes only in the last step of such a cycle,
\* from true to false; a cycle that returns early or is abandoned leaves it
\* as it was; once false it stays false.
C23_BootstrapEndsOnCompletion ==
  /\ [](is_first_run <=> ~completedBefore)
  /\ [](pc = "get_posts" => firstAtStart = is_first_run)
  /\ [][is_first_run' # is_first_run =>
          CompletionStep /\ wallPosts # <<>> /\ is_first_run]_vars
  /\ [][UncompletedEndStep => is_first_run' = is_first_run]_vars
  /\ [][~is_first_run => ~is_first_run']_vars

\* a first cycle that recorded comments and was then abandoned: the next
\* cycle is a bootstrap pass again
C23_Witness ==
  /\ pc = "loop"
  /\ cycleEnd = "exception"
  /\ seen_comments # {}
  /\ is_first_run

\* C24: at the start of every cycle seen_comments holds at most CACHE_LIMIT
\* ids, and in every state it holds at most
\* CACHE_LIMIT + POSTS_TO_CHECK * COMMENTS_PER_POST ids.
C24_CeilingBoundsSeenSet ==
  /\ cycleEnd # "none" => Cardinality(seenAtStart) <= CACHE_LIMIT
  /\ Cardinality(seen_comments)
       <= CACHE_LIMIT + POSTS_TO_CHECK * COMMENTS_PER_POST

\* C25: in a cycle that started with is_first_run false, every id that the
\* cycle has put into seen_comments is an id send_telegram_message was
\* entered for in that cycle.
C25_SeenOnlyWithDelivery ==
  (cycleEnd # "none" /\ ~firstAtStart) =>
    (seen_comments \ seenAtStart) \subseteq Range(sent)
====
